---- MODULE Spec2Model ----
(***************************************************************************)
(* Model of google_reviews_mapper: the search grid (gps/tools.py), the     *)
(* region filter and the collection loop of download_data                  *)
(* (get_restaurants.py).                                                   *)
(*                                                                         *)
(* Numbers.  A Python float is modelled as a record [n, k]: n counts units *)
(* of 1/DegUnits degree; k = 0 for an ordinary value, and k = 1 for a      *)
(* finite value that was divided by the cosine of a pole latitude          *)
(* (about 6.1e-17 in double precision), which is larger in magnitude than  *)
(* every ordinary value.                                                   *)
(* Text.  A number written in a string is a record [v, form]: v is the     *)
(* float that float() parses from it and form tells whether the text is    *)
(* the one an f-string prints for v ("repr", such as "40.0") or another    *)
(* spelling of the same number ("alt", such as "40" or "40.00").           *)
(***************************************************************************)
EXTENDS Integers, Sequences, FiniteSets, TLC

\* download_data
VARIABLES pc, start_location, radius, iterations, city_county, map_only,
          locations, county_gdf, filtered_locs, loc_i, calls, responses,
          results, err

\* get_restaurants_around_location, request by request
VARIABLES fetch_pc, pages_left, page_token, fetch_results, events, fetch_err

\* clean_restaurant_data
VARIABLES clean_pc, raw, clean_gdf, clean_again, clean_err

downloadVars == <<pc, start_location, radius, iterations, city_county, map_only,
                  locations, county_gdf, filtered_locs, loc_i, calls, responses,
                  results, err>>

fetchVars == <<fetch_pc, pages_left, page_token, fetch_results, events, fetch_err>>

cleanVars == <<clean_pc, raw, clean_gdf, clean_again, clean_err>>

vars == <<downloadVars, fetchVars, cleanVars>>

----------------------------------------------------------------------------
(* Bounds of the model                                                     *)

MaxIter == 1

MaxPolys == 2

----------------------------------------------------------------------------
(* Arithmetic                                                              *)

DegUnits == 10000

EarthRadiusKm == 6378

PiNum == 355

PiDen == 113

Abs(x) == IF x < 0 THEN -x ELSE x

\* float division rounds symmetrically around zero; \div floors
Trunc(a, b) == IF a >= 0 THEN a \div b ELSE -((-a) \div b)

Float(n) == [n |-> n, k |-> 0]

\* a < b on modelled floats
FLess(a, b) ==
    IF a.k = 0 /\ b.k = 0 THEN a.n < b.n
    ELSE IF a.k = 1 /\ b.k = 1 THEN a.n < b.n
    ELSE IF a.k = 1 THEN a.n < 0
    ELSE b.n > 0

\* a + b on modelled floats: a pole-scaled term dominates the sum
FAdd(a, b) ==
    IF b.k = 1 THEN b
    ELSE IF a.k = 1 THEN a
    ELSE [n |-> a.n + b.n, k |-> 0]

\* (km_diff / 6378) * (180 / math.pi), for meters_diff metres, in units
DegreesOf(meters_diff) ==
    Trunc(meters_diff * 180 * PiDen * (DegUnits \div 1000), EarthRadiusKm * PiNum)

\* math.cos(start_lat * math.pi / 180) as mantissa m and exponent e, m * 10^-e.
\* In double precision the cosine of 90 degrees is 6.1e-17, not 0.
Cos(start_lat) ==
    IF Abs(start_lat.n) = 90 * DegUnits THEN [m |-> 61, e |-> 18]
    ELSE IF Abs(start_lat.n) = 60 * DegUnits THEN [m |-> 500, e |-> 3]
    ELSE [m |-> 1000, e |-> 3]

add_to_latitude(start_lat, meters_diff) ==
    [status |-> "ok", value |-> FAdd(start_lat, Float(DegreesOf(meters_diff)))]

add_to_longitude(start_lon, start_lat, meters_diff) ==
    LET d == DegreesOf(meters_diff)
        c == Cos(start_lat)
    IN  IF c.m = 0 THEN [status |-> "ZeroDivisionError", value |-> start_lon]
        ELSE IF c.e = 3
             THEN [status |-> "ok",
                   value |-> FAdd(start_lon, Float(Trunc(d * 1000, c.m)))]
        ELSE IF d = 0 THEN [status |-> "ok", value |-> FAdd(start_lon, Float(0))]
        ELSE [status |-> "ok", value |-> FAdd(start_lon, [n |-> d, k |-> 1])]

----------------------------------------------------------------------------
(* Text of a location: "<lat>, <lon>"                                      *)

\* float(text)
ParseFloat(text) == text.v

\* f"{x}"
FormatFloat(x) == [v |-> x, form |-> "repr"]

\* f"{lat}, {lon}"
FormatLoc(lat, lon) == [lat |-> FormatFloat(lat), lon |-> FormatFloat(lon)]

\* map(float, loc.split(", "))
ParseLoc(loc) == [lat |-> ParseFloat(loc.lat), lon |-> ParseFloat(loc.lon)]

----------------------------------------------------------------------------
(* Sequence helpers                                                        *)

Reverse(s) == [p \in 1..Len(s) |-> s[Len(s) + 1 - p]]

Rotate(s) == IF Len(s) = 0 THEN s ELSE Tail(s) \o <<Head(s)>>

Elems(s) == {s[p] : p \in 1..Len(s)}

RECURSIVE Flatten(_)
Flatten(ss) == IF Len(ss) = 0 THEN <<>> ELSE Head(ss) \o Flatten(Tail(ss))

\* the first occurrence of every element of s, in the order of s
FirstOccurrences(s) ==
    SelectSeq([p \in 1..Len(s) |-> [x |-> s[p], first |-> \A q \in 1..(p - 1) : s[q] # s[p]]],
              LAMBDA e : e.first)

Unwrap(s) == [p \in 1..Len(s) |-> s[p].x]

----------------------------------------------------------------------------
(* generate_grid_locs                                                      *)

Side(iters) == IF iters < 0 THEN 0 ELSE 2 * iters + 1

\* the loc appended by the loop body for the k-th (i, j) pair, row-major
GridLoc(start_loc, distance, iters, k) ==
    LET start == ParseLoc(start_loc)
        i == ((k - 1) \div Side(iters)) - iters
        j == ((k - 1) % Side(iters)) - iters
        lat == add_to_latitude(start.lat, i * distance)
        lon == add_to_longitude(start.lon, start.lat, j * distance)
    IN  [status |-> IF lat.status # "ok" THEN lat.status ELSE lon.status,
         loc |-> FormatLoc(lat.value, lon.value)]

\* GridLocs without the seeding of locs with start_loc
GridLocs_NoSeed(start_loc, distance, iters) ==
    [k \in 1..(Side(iters) * Side(iters)) |-> GridLoc(start_loc, distance, iters, k).loc]

\* locs when the loops are over: the start text, then one loc per (i, j)
GridLocs(start_loc, distance, iters) ==
    <<start_loc>> \o
    [k \in 1..(Side(iters) * Side(iters)) |-> GridLoc(start_loc, distance, iters, k).loc]

\* the exception the loops raise, "ok" when none
GridStatus(start_loc, distance, iters) ==
    IF \E k \in 1..(Side(iters) * Side(iters)) :
           GridLoc(start_loc, distance, iters, k).status # "ok"
    THEN "ZeroDivisionError" ELSE "ok"

\* list(set(locs)): every distinct text once; the order of a set of strings
\* depends on the hash seed, the model draws it from three orders
SetToLists(locs) ==
    LET u == Unwrap(FirstOccurrences(locs))
    IN  {u, Reverse(u), Rotate(u)}

generate_grid_locs(start_loc, distance, iters) ==
    SetToLists(GridLocs(start_loc, distance, iters))

----------------------------------------------------------------------------
(* filter_grid_by_region                                                   *)

\* shapely.geometry.Point(float(loc.split(", ")[1]), float(loc.split(", ")[0]))
Point(loc) == [x |-> ParseFloat(loc.lon), y |-> ParseFloat(loc.lat)]

\* geopandas.GeoDataFrame(geometry=points): one row per list entry, indexed
\* by the entry's position
LocationsGdf(locs) == [p \in 1..Len(locs) |-> [idx |-> p, geometry |-> Point(locs[p])]]

\* point.within(boundary.geometry): the point lies in the interior of the
\* polygon; a point on the boundary is not within. Polygons are rectangles.
Within(point, boundary) ==
    /\ FLess(Float(boundary.lon_lo), point.x)
    /\ FLess(point.x, Float(boundary.lon_hi))
    /\ FLess(Float(boundary.lat_lo), point.y)
    /\ FLess(point.y, Float(boundary.lat_hi))

\* PointsWithin with intersects in place of within: boundary points pass
PointsWithin_Intersects(gdf, boundary) ==
    SelectSeq(gdf, LAMBDA row :
        /\ ~FLess(row.geometry.x, Float(boundary.lon_lo))
        /\ ~FLess(Float(boundary.lon_hi), row.geometry.x)
        /\ ~FLess(row.geometry.y, Float(boundary.lat_lo))
        /\ ~FLess(Float(boundary.lat_hi), row.geometry.y))

\* locations_gdf[locations_gdf.within(boundary.geometry)]
PointsWithin(gdf, boundary) ==
    SelectSeq(gdf, LAMBDA row : Within(row.geometry, boundary))

\* filter_grid_by_region that gives a location to the first polygon it is
\* within only
filter_grid_by_region_FirstMatch(locs, region_gdf) ==
    LET gdfs_within_boundaries ==
            [q \in 1..Len(region_gdf) |->
                SelectSeq(PointsWithin(LocationsGdf(locs), region_gdf[q]),
                          LAMBDA row : \A e \in 1..(q - 1) :
                                           ~Within(row.geometry, region_gdf[e]))]
    IN  IF Len(gdfs_within_boundaries) = 0
        THEN [status |-> "ValueError", gdf |-> <<>>]
        ELSE [status |-> "ok", gdf |-> Flatten(gdfs_within_boundaries)]

\* the loop over region_gdf.iterrows() and pandas.concat, which raises
\* ValueError ("No objects to concatenate") when given an empty list
filter_grid_by_region(locs, region_gdf) ==
    LET gdfs_within_boundaries ==
            [q \in 1..Len(region_gdf) |-> PointsWithin(LocationsGdf(locs), region_gdf[q])]
    IN  IF Len(gdfs_within_boundaries) = 0
        THEN [status |-> "ValueError", gdf |-> <<>>]
        ELSE [status |-> "ok", gdf |-> Flatten(gdfs_within_boundaries)]

\* [f"{point.y}, {point.x}" for point in filtered_locs.geometry]
FilteredLocsList(gdf) ==
    [p \in 1..Len(gdf) |-> FormatLoc(gdf[p].geometry.y, gdf[p].geometry.x)]

----------------------------------------------------------------------------
(* get_restaurants_around_location and the places service                  *)

\* the service's answer to one search: no answer ("error"), or the pages
\* of results; every page but the last carries a next_page_token
ServiceAnswers(location) ==
    LET page1 == <<[name |-> "diner", vicinity |-> location]>>
        page2 == <<[name |-> "chain", vicinity |-> location],
                   [name |-> "chain", vicinity |-> FormatLoc(Float(0), Float(0))]>>
    IN  {[kind |-> "error", pages |-> <<>>],
         [kind |-> "pages", pages |-> <<page1>>],
         [kind |-> "pages", pages |-> <<page1, page2>>]}

\* requests.get raises when there is no answer; res_json["next_page_token"]
\* raises KeyError when the first page carries no token; otherwise the pages
\* are read one after the other and their results concatenated
get_restaurants_around_location(answer) ==
    IF answer.kind = "error"
    THEN [status |-> "ConnectionError", results |-> <<>>]
    ELSE IF Len(answer.pages) = 1
    THEN [status |-> "KeyError", results |-> <<>>]
    ELSE [status |-> "ok", results |-> Flatten(answer.pages)]

----------------------------------------------------------------------------
(* Inputs                                                                  *)

StartLat == 60 * DegUnits

StartLon == -111 * DegUnits

Forms == {"repr", "alt"}

\* start_location as the caller writes it
StartLocs ==
    {[lat |-> [v |-> Float(StartLat), form |-> f], lon |-> [v |-> Float(StartLon), form |-> g]] :
        f \in Forms, g \in Forms}
    \cup {FormatLoc(Float(90 * DegUnits), Float(StartLon)),
          FormatLoc(Float(-90 * DegUnits), Float(StartLon))}

Radii == {-500, 0, 500}

Selectors == {"city", "county", "state"}

\* the municipal boundaries the county service may return
Polygons ==
    {[NAME |-> "SALT LAKE",
      lat_lo |-> StartLat - DegreesOf(500), lat_hi |-> StartLat + DegreesOf(500),
      lon_lo |-> StartLon - 2 * DegreesOf(500), lon_hi |-> StartLon + 2 * DegreesOf(500)],
     [NAME |-> "MURRAY",
      lat_lo |-> StartLat - 1000, lat_hi |-> StartLat + 1000,
      lon_lo |-> StartLon - 1000, lon_hi |-> StartLon + 1000],
     [NAME |-> "SANDY",
      lat_lo |-> StartLat - 100, lat_hi |-> StartLat + 100,
      lon_lo |-> StartLon - 50, lon_hi |-> StartLon + 1000]}

\* a GeoDataFrame of boundaries: rows with distinct names
Regions ==
    {r \in UNION {[1..n -> Polygons] : n \in 0..MaxPolys} :
        \A p, q \in 1..Len(r) : p # q => r[p] # r[q]}

----------------------------------------------------------------------------
(* download_data                                                           *)

\* get_restaurants_around_location is not running
FetchIdle ==
    /\ fetch_pc = "idle"
    /\ pages_left = 0
    /\ page_token = 0
    /\ fetch_results = <<>>
    /\ events = <<>>
    /\ fetch_err = "none"

\* clean_restaurant_data is not running
CleanIdle ==
    /\ clean_pc = "idle"
    /\ raw = <<>>
    /\ clean_gdf = <<>>
    /\ clean_again = <<>>
    /\ clean_err = "none"

Init ==
    /\ FetchIdle
    /\ CleanIdle
    /\ pc = "check_selector"
    /\ start_location \in StartLocs
    /\ radius \in Radii
    /\ iterations \in -1..MaxIter
    /\ city_county \in Selectors
    /\ map_only \in BOOLEAN
    /\ locations = <<>>
    /\ county_gdf = <<>>
    /\ filtered_locs = <<>>
    /\ loc_i = 0
    /\ calls = <<>>
    /\ responses = <<>>
    /\ results = <<>>
    /\ err = "none"

Raise(e) == pc' = "raised" /\ err' = e

\* lines 37-38
CheckSelector ==
    /\ UNCHANGED <<fetchVars, cleanVars>>
    /\ pc = "check_selector"
    /\ IF city_county \notin {"city", "county"}
       THEN Raise("AttributeError")
       ELSE pc' = "generate_grid" /\ err' = err
    /\ UNCHANGED <<start_location, radius, iterations, city_county, map_only,
                   locations, county_gdf, filtered_locs, loc_i, calls,
                   responses, results>>

\* lines 45-49
GenerateGrid ==
    /\ UNCHANGED <<fetchVars, cleanVars>>
    /\ pc = "generate_grid"
    /\ IF GridStatus(start_location, radius, iterations) # "ok"
       THEN /\ Raise(GridStatus(start_location, radius, iterations))
            /\ UNCHANGED locations
       ELSE /\ locations' \in generate_grid_locs(start_location, radius, iterations)
            /\ pc' = "filter"
            /\ err' = err
    /\ UNCHANGED <<start_location, radius, iterations, city_county, map_only,
                   county_gdf, filtered_locs, loc_i, calls, responses, results>>

\* lines 53-68 and 85-86: the boundaries are read from the county service
FilterCounty ==
    /\ UNCHANGED <<fetchVars, cleanVars>>
    /\ pc = "filter"
    /\ city_county = "county"
    /\ \E region_gdf \in Regions :
          LET r == filter_grid_by_region(locations, region_gdf)
          IN  /\ county_gdf' = region_gdf
              /\ IF r.status # "ok"
                 THEN Raise(r.status) /\ UNCHANGED filtered_locs
                 ELSE /\ filtered_locs' = r.gdf
                      /\ pc' = IF map_only THEN "returned" ELSE "collect"
                      /\ err' = err
    /\ UNCHANGED <<start_location, radius, iterations, city_county, map_only,
                   locations, loc_i, calls, responses, results>>

\* lines 70-72: county_gdf is assigned in the "county" branch only
FilterCity ==
    /\ UNCHANGED <<fetchVars, cleanVars>>
    /\ pc = "filter"
    /\ city_county = "city"
    /\ Raise("UnboundLocalError")
    /\ UNCHANGED <<start_location, radius, iterations, city_county, map_only,
                   locations, county_gdf, filtered_locs, loc_i, calls,
                   responses, results>>

\* lines 94-104, one pass of the loop whose search returns
FetchReturns ==
    /\ UNCHANGED <<fetchVars, cleanVars>>
    /\ pc = "collect"
    /\ loc_i < Len(filtered_locs)
    /\ LET location == FilteredLocsList(filtered_locs)[loc_i + 1]
       IN  \E answer \in ServiceAnswers(location) :
              LET r == get_restaurants_around_location(answer)
              IN  /\ r.status = "ok"
                  /\ loc_i' = loc_i + 1
                  /\ calls' = Append(calls, location)
                  /\ responses' = Append(responses, r.results)
                  /\ results' = results \o r.results
    /\ UNCHANGED <<pc, err, start_location, radius, iterations, city_county,
                   map_only, locations, county_gdf, filtered_locs>>

\* lines 94-104, one pass of the loop whose search raises: nothing in
\* download_data catches the exception
FetchRaises ==
    /\ UNCHANGED <<fetchVars, cleanVars>>
    /\ pc = "collect"
    /\ loc_i < Len(filtered_locs)
    /\ LET location == FilteredLocsList(filtered_locs)[loc_i + 1]
       IN  \E answer \in ServiceAnswers(location) :
              LET r == get_restaurants_around_location(answer)
              IN  /\ r.status # "ok"
                  /\ loc_i' = loc_i + 1
                  /\ calls' = Append(calls, location)
                  /\ Raise(r.status)
    /\ UNCHANGED <<start_location, radius, iterations, city_county, map_only,
                   locations, county_gdf, filtered_locs, responses, results>>

\* line 94, the list is exhausted: control goes on to line 106
LoopExit ==
    /\ UNCHANGED <<fetchVars, cleanVars>>
    /\ pc = "collect"
    /\ loc_i = Len(filtered_locs)
    /\ pc' = "extract"
    /\ UNCHANGED <<err, start_location, radius, iterations, city_county,
                   map_only, locations, county_gdf, filtered_locs, loc_i,
                   calls, responses, results>>

Next ==
    \/ CheckSelector
    \/ GenerateGrid
    \/ FilterCounty
    \/ FilterCity
    \/ FetchReturns
    \/ FetchRaises
    \/ LoopExit

Spec == Init /\ [][Next]_vars

----------------------------------------------------------------------------
(* Positions of download_data                                              *)

FetchErrors == {"ConnectionError", "KeyError"}

\* generate_grid_locs has been called
GridCalled ==
    /\ pc \notin {"check_selector", "generate_grid"}
    /\ err # "AttributeError"

\* generate_grid_locs has returned its list
GridReturned ==
    \/ pc \in {"filter", "collect", "extract", "returned"}
    \/ pc = "raised" /\ err \in {"ValueError", "UnboundLocalError"} \cup FetchErrors

\* filter_grid_by_region has been called with county_gdf
FilterCalled ==
    /\ GridReturned
    /\ city_county = "county"
    /\ pc # "filter"

\* filter_grid_by_region has returned filtered_locs
FilterReturned ==
    \/ pc \in {"collect", "extract", "returned"}
    \/ pc = "raised" /\ err \in FetchErrors

\* the collection loop is over, by exhaustion or by an exception
CollectionOver ==
    \/ pc = "extract"
    \/ pc = "raised" /\ err \in FetchErrors

IsPole(loc) == Abs(ParseLoc(loc).lat.n) = 90 * DegUnits

\* the closed rectangle of the polygon contains the point
Covers(boundary, point) ==
    /\ ~FLess(point.x, Float(boundary.lon_lo))
    /\ ~FLess(Float(boundary.lon_hi), point.x)
    /\ ~FLess(point.y, Float(boundary.lat_lo))
    /\ ~FLess(Float(boundary.lat_hi), point.y)

\* number of rows of gdf that stand for the p-th location
RowsOf(gdf, p) == Cardinality({r \in 1..Len(gdf) : gdf[r].idx = p})

\* number of locations within the q-th polygon
BlockSize(locs, region_gdf, q) ==
    Cardinality({p \in 1..Len(locs) : Within(Point(locs[p]), region_gdf[q])})

RECURSIVE BlockStart(_, _, _)
\* number of rows that precede the rows of the q-th polygon
BlockStart(locs, region_gdf, q) ==
    IF q = 1 THEN 0
    ELSE BlockStart(locs, region_gdf, q - 1) + BlockSize(locs, region_gdf, q - 1)

----------------------------------------------------------------------------
(* Claims                                                                  *)

\* C1: for iterations >= 0 the list returned by generate_grid_locs contains
\* the start location, as the very text the caller passed (hence as a
\* coordinate too).
C1_StartIncluded ==
    (GridReturned /\ iterations >= 0) => start_location \in Elems(locations)

C1_Witness ==
    /\ GridReturned
    /\ iterations = 1
    /\ radius = 500
    /\ start_location.lat.form = "alt"
    /\ Len(locations) = 10

\* C2: with iterations = 0 the returned list has exactly one element, the
\* start location, however the caller wrote it.
C2_ZeroIterationsIsStart ==
    (GridReturned /\ iterations = 0) =>
        (Len(locations) = 1 /\ locations[1] = start_location)

\* C3: for spacing > 0 and iterations >= 0 the grid is computed from exactly
\* (2*iterations+1)^2 coordinate computations, no coordinate is returned
\* twice, and at most (2*iterations+1)^2 elements are returned.
C3_GridSizeBound ==
    (GridReturned /\ radius > 0 /\ iterations >= 0) =>
        /\ Len(GridLocs(start_location, radius, iterations)) - 1
               = (2 * iterations + 1) * (2 * iterations + 1)
        /\ \A p, q \in 1..Len(locations) :
               p # q => ParseLoc(locations[p]) # ParseLoc(locations[q])
        /\ Len(locations) <= (2 * iterations + 1) * (2 * iterations + 1)

\* C4: generate_grid_locs called with spacing <= 0 or iterations < 0 raises
\* InvalidArgument and returns no grid.
C4_InvalidArgument ==
    (GridCalled /\ (radius <= 0 \/ iterations < 0)) =>
        (pc = "raised" /\ err = "InvalidArgument" /\ locations = <<>>)

\* C5: add_to_longitude evaluated with a start latitude at a pole raises a
\* domain error instead of returning a value.
C5_PoleRaises ==
    (GridCalled /\ IsPole(start_location) /\ iterations >= 0) =>
        \A j \in (-iterations)..iterations :
            add_to_longitude(ParseLoc(start_location).lon,
                             ParseLoc(start_location).lat, j * radius).status # "ok"

\* C6: filter_grid_by_region outputs one row per (location, polygon) pair
\* with the location within the polygon: a location within k polygons has k
\* rows, one within none has no row, and the rows come polygon by polygon in
\* the order of the region, in list order inside each polygon.
C6_OncePerMatchingPolygon ==
    FilterReturned =>
        /\ \A p \in 1..Len(locations) :
               RowsOf(filtered_locs, p)
                   = Cardinality({q \in 1..Len(county_gdf) :
                                     Within(Point(locations[p]), county_gdf[q])})
        /\ \A r \in 1..Len(filtered_locs) :
               /\ filtered_locs[r].idx \in 1..Len(locations)
               /\ filtered_locs[r].geometry = Point(locations[filtered_locs[r].idx])
        /\ \A q \in 1..Len(county_gdf) :
               \A r \in 1..BlockSize(locations, county_gdf, q) :
                   LET at == BlockStart(locations, county_gdf, q) + r
                   IN  /\ at <= Len(filtered_locs)
                       /\ Within(filtered_locs[at].geometry, county_gdf[q])
                       /\ r > 1 => filtered_locs[at - 1].idx < filtered_locs[at].idx

C6_Witness ==
    /\ FilterReturned
    /\ Len(county_gdf) = 2
    /\ \E p \in 1..Len(locations) : RowsOf(filtered_locs, p) = 2
    /\ \E p \in 1..Len(locations) : RowsOf(filtered_locs, p) = 1
    /\ \E p \in 1..Len(locations) : RowsOf(filtered_locs, p) = 0

\* C7: filter_grid_by_region called with an empty region returns an empty
\* result and does not raise.
C7_EmptyRegionEmptyResult ==
    (FilterCalled /\ Len(county_gdf) = 0) =>
        (FilterReturned /\ filtered_locs = <<>>)

\* C8 as stated: with a single polygon that covers every grid point, points
\* on its edge included, filter_grid_by_region returns every grid point.
C8_CoveringPolygonReturnsAll ==
    (FilterReturned /\ Len(county_gdf) = 1
        /\ \A p \in 1..Len(locations) : Covers(county_gdf[1], Point(locations[p]))) =>
        \A p \in 1..Len(locations) : RowsOf(filtered_locs, p) = 1

\* C8 amended: with a single polygon whose interior contains every grid
\* point, filter_grid_by_region returns every grid point once, in list
\* order; with any single polygon, a grid point on the polygon's boundary
\* is not returned.
C8_InteriorPolygonReturnsAll ==
    (FilterReturned /\ Len(county_gdf) = 1) =>
        /\ (\A p \in 1..Len(locations) : Within(Point(locations[p]), county_gdf[1])) =>
               filtered_locs = LocationsGdf(locations)
        /\ \A p \in 1..Len(locations) :
               (/\ Covers(county_gdf[1], Point(locations[p]))
                /\ ~Within(Point(locations[p]), county_gdf[1])) =>
                   RowsOf(filtered_locs, p) = 0

C8_Witness ==
    /\ FilterReturned
    /\ Len(county_gdf) = 1
    /\ county_gdf[1].NAME = "MURRAY"
    /\ Len(locations) >= 9
    /\ Len(filtered_locs) = Len(locations)

\* C9: the driver calls the search once per retained point, in list order,
\* with the point's own coordinate, and the accumulated list is the
\* concatenation of the lists those calls returned.
C9_OneCallPerPoint ==
    CollectionOver =>
        /\ calls = FilteredLocsList(filtered_locs)
        /\ Len(responses) = Len(filtered_locs)
        /\ results = Flatten(responses)

\* C10: a search that fails for one point does not abort the collection.
C10_FailureDoesNotAbort ==
    err \in FetchErrors => pc # "raised"

----------------------------------------------------------------------------
(* get_restaurants_around_location, request by request                     *)
(* (gmaps/restaurants.py lines 142-163)                                    *)

\* the most pages the service holds for one search
MaxPages == 3

\* the "results" a response of the service may carry
PageResults == {<<>>, <<"diner">>, <<"chain", "cafe">>}

\* download_data is not running
DownloadIdle ==
    /\ pc = "idle"
    /\ start_location = FormatLoc(Float(StartLat), Float(StartLon))
    /\ radius = 500
    /\ iterations = 0
    /\ city_county = "county"
    /\ map_only = FALSE
    /\ locations = <<>>
    /\ county_gdf = <<>>
    /\ filtered_locs = <<>>
    /\ loc_i = 0
    /\ calls = <<>>
    /\ responses = <<>>
    /\ results = <<>>
    /\ err = "none"

\* the events of one search, oldest first: a request with the pagetoken it
\* carries (0: the first request, which has none), a response with its
\* results and its next_page_token (0: the key is absent), a sleep
Event(type, token, res) == [type |-> type, token |-> token, results |-> res]

EventsOf(type) == SelectSeq(events, LAMBDA e : e.type = type)

\* the service's response to the request in flight: the n-th response carries
\* the token n while pages are left after it
ServiceResponse(res) ==
    Event("response", IF pages_left > 1 THEN Len(EventsOf("response")) + 1 ELSE 0, res)

InitFetch ==
    /\ DownloadIdle
    /\ CleanIdle
    /\ fetch_pc = "start"
    /\ pages_left \in 1..MaxPages
    /\ page_token = 0
    /\ fetch_results = <<>>
    /\ events = <<>>
    /\ fetch_err = "none"

\* lines 134-142: the first request is sent
RequestFirst ==
    /\ fetch_pc = "start"
    /\ events' = Append(events, Event("request", 0, <<>>))
    /\ fetch_pc' = "await_first"
    /\ UNCHANGED <<pages_left, page_token, fetch_results, fetch_err>>
    /\ UNCHANGED <<downloadVars, cleanVars>>

\* lines 142-145: the first response; res_json["next_page_token"] raises
\* KeyError when the response has no such key
ResponseFirst ==
    /\ fetch_pc = "await_first"
    /\ \E res \in PageResults :
          LET response == ServiceResponse(res)
          IN  /\ events' = Append(events, response)
              /\ fetch_results' = response.results
              /\ IF response.token = 0
                 THEN /\ fetch_pc' = "raised"
                      /\ fetch_err' = "KeyError"
                      /\ UNCHANGED page_token
                 ELSE /\ fetch_pc' = "loop"
                      /\ page_token' = response.token
                      /\ UNCHANGED fetch_err
    /\ pages_left' = pages_left - 1
    /\ UNCHANGED <<downloadVars, cleanVars>>

\* SleepBeforeNext without the call of time.sleep
SleepBeforeNext_NoSleep ==
    /\ fetch_pc = "loop"
    /\ page_token # 0
    /\ fetch_pc' = "request_next"
    /\ UNCHANGED <<pages_left, page_token, fetch_results, events, fetch_err>>
    /\ UNCHANGED <<downloadVars, cleanVars>>

\* lines 148-153: the loop is entered with a token, the params of the next
\* request are built and time.sleep(3) returns
SleepBeforeNext ==
    /\ fetch_pc = "loop"
    /\ page_token # 0
    /\ events' = Append(events, Event("sleep", 0, <<>>))
    /\ fetch_pc' = "request_next"
    /\ UNCHANGED <<pages_left, page_token, fetch_results, fetch_err>>
    /\ UNCHANGED <<downloadVars, cleanVars>>

\* line 154: the request for the next page is sent with params["pagetoken"]
RequestNext ==
    /\ fetch_pc = "request_next"
    /\ events' = Append(events, Event("request", page_token, <<>>))
    /\ fetch_pc' = "await_next"
    /\ UNCHANGED <<pages_left, page_token, fetch_results, fetch_err>>
    /\ UNCHANGED <<downloadVars, cleanVars>>

\* lines 154-161: the response of a next page extends results, and its
\* token, or None when the key is absent, replaces page_token
ResponseNext ==
    /\ fetch_pc = "await_next"
    /\ \E res \in PageResults :
          LET response == ServiceResponse(res)
          IN  /\ events' = Append(events, response)
              /\ fetch_results' = fetch_results \o response.results
              /\ page_token' = response.token
    /\ pages_left' = pages_left - 1
    /\ fetch_pc' = "loop"
    /\ UNCHANGED fetch_err
    /\ UNCHANGED <<downloadVars, cleanVars>>

\* lines 142 and 154: requests.get raises when the service does not answer
RequestFails ==
    /\ fetch_pc \in {"await_first", "await_next"}
    /\ fetch_pc' = "raised"
    /\ fetch_err' = "ConnectionError"
    /\ UNCHANGED <<pages_left, page_token, fetch_results, events>>
    /\ UNCHANGED <<downloadVars, cleanVars>>

\* lines 148 and 163: page_token is None, results is returned
ReturnResults ==
    /\ fetch_pc = "loop"
    /\ page_token = 0
    /\ fetch_pc' = "returned"
    /\ UNCHANGED <<pages_left, page_token, fetch_results, events, fetch_err>>
    /\ UNCHANGED <<downloadVars, cleanVars>>

NextFetch ==
    \/ RequestFirst
    \/ ResponseFirst
    \/ SleepBeforeNext
    \/ RequestNext
    \/ ResponseNext
    \/ RequestFails
    \/ ReturnResults

SpecFetch == InitFetch /\ [][NextFetch]_vars

\* the results of the responses received so far, page after page
PagesReceived == Flatten([p \in 1..Len(EventsOf("response")) |-> EventsOf("response")[p].results])

\* C11: a request for a further page is sent only after the response to the
\* previous request was received, it carries the next_page_token of that
\* response, and a sleep lies between the response and the request (hence
\* between every two consecutive requests).
C11_SequentialPagination ==
    \A e \in 1..Len(events) :
        (events[e].type = "request" /\ e > 1) =>
            /\ e >= 4
            /\ events[e - 1].type = "sleep"
            /\ events[e - 2].type = "response"
            /\ events[e - 2].token # 0
            /\ events[e].token = events[e - 2].token
            /\ events[e - 3].type = "request"

C11_Witness ==
    /\ fetch_pc = "returned"
    /\ Len(EventsOf("request")) = 3
    /\ Len(EventsOf("sleep")) = 2

\* C20: once the service has sent a response without a continuation token,
\* the first response included, get_restaurants_around_location returns
\* the concatenation of the results of every page in page order.
C20_ReturnsAllPages ==
    (\E e \in 1..Len(events) : events[e].type = "response" /\ events[e].token = 0) =>
        /\ fetch_pc \in {"loop", "returned"}
        /\ fetch_results = PagesReceived

----------------------------------------------------------------------------
(* clean_restaurant_data (transform/tools.py lines 13-78)                  *)
(*                                                                         *)
(* A record of the CSV files: name, latitude and longitude in units of     *)
(* 1/DegUnits degree, rating in tenths of a star with rated = FALSE for    *)
(* the NaN of a place without ratings, user_ratings_total, and types_str   *)
(* as the list of its comma separated parts, <<>> for the empty field      *)
(* that pandas.read_csv reads as NaN.                                      *)

\* the most records in the CSV files
MaxRecs == 3

Place(name, latitude, longitude, rated, rating, total, types) ==
    [name |-> name, latitude |-> latitude, longitude |-> longitude,
     rated |-> rated, rating |-> rating, user_ratings_total |-> total,
     types_str |-> types]

RawRecords ==
    {Place("ChainX", 407600, -1118900, TRUE, 40, 10, <<"restaurant", "food">>),
     Place("ChainX", 407700, -1118900, TRUE, 50, 20, <<"restaurant">>),
     Place("ChainX", 407800, -1118900, TRUE, 30, 30, <<"meal_takeaway", "restaurant">>),
     Place("ChainX", 407603, -1118902, TRUE, 20, 5, <<"restaurant">>),
     Place("ChainX", 407606, -1118900, TRUE, 10, 40, <<"bar", "restaurant">>),
     Place("Solo", 408010, -1119770, FALSE, 0, 0, <<"cafe">>),
     Place("Solo", 408012, -1119771, TRUE, 45, 2, <<>>)}

\* lines 25-36: the records of all CSV files, in the order of os.walk;
\* <<>> stands for a directory without CSV file
RawInputs == UNION {[1..n -> RawRecords] : n \in 0..MaxRecs}

\* grid_size=0.001, in units
GridSize == DegUnits \div 1000

\* shapely.set_precision on one ordinate: the nearest multiple of grid_size
Snap(x) ==
    IF x >= 0 THEN ((x + (GridSize \div 2)) \div GridSize) * GridSize
    ELSE -((((-x) + (GridSize \div 2)) \div GridSize) * GridSize)

\* lines 37-44: points_from_xy(longitude, latitude), then set_precision
WithGeometry(recs) ==
    [p \in 1..Len(recs) |->
        [rec |-> recs[p],
         geometry |-> [x |-> Snap(recs[p].longitude), y |-> Snap(recs[p].latitude)]]]

SameKey(a, b) == a.rec.name = b.rec.name /\ a.geometry = b.geometry

\* drop_duplicates that compares a row with the row before it only
DropDuplicates_Adjacent(rows) ==
    Unwrap(SelectSeq([p \in 1..Len(rows) |->
                         [x |-> rows[p],
                          first |-> p = 1 \/ ~SameKey(rows[p - 1], rows[p])]],
                     LAMBDA e : e.first))

\* drop_duplicates that keeps the last row of every key
DropDuplicates_KeepLast(rows) ==
    Unwrap(SelectSeq([p \in 1..Len(rows) |->
                         [x |-> rows[p],
                          first |-> \A q \in (p + 1)..Len(rows) : ~SameKey(rows[q], rows[p])]],
                     LAMBDA e : e.first))

\* line 45: drop_duplicates(["name", "geometry"]) keeps the first row of
\* every (name, geometry)
DropDuplicates(rows) ==
    Unwrap(SelectSeq([p \in 1..Len(rows) |->
                         [x |-> rows[p],
                          first |-> \A q \in 1..(p - 1) : ~SameKey(rows[q], rows[p])]],
                     LAMBDA e : e.first))

\* line 48: rating * user_ratings_total, NaN for a NaN rating
Stars(rec) ==
    IF rec.rated THEN [nan |-> FALSE, v |-> rec.rating * rec.user_ratings_total]
    ELSE [nan |-> TRUE, v |-> 0]

RECURSIVE SumStars(_, _)
\* line 53: the sum of stars over the rows of a name; sum() skips NaN
SumStars(rows, name) ==
    IF Len(rows) = 0 THEN 0
    ELSE (IF Head(rows).rec.name = name /\ ~Stars(Head(rows).rec).nan
          THEN Stars(Head(rows).rec).v ELSE 0) + SumStars(Tail(rows), name)

RECURSIVE SumRatingsTotal(_, _)
\* lines 54-56: the sum of user_ratings_total over the rows of a name
SumRatingsTotal(rows, name) ==
    IF Len(rows) = 0 THEN 0
    ELSE (IF Head(rows).rec.name = name /\ Head(rows).rec.rated
          THEN Head(rows).rec.user_ratings_total ELSE 0)
         + SumRatingsTotal(Tail(rows), name)

\* line 50: the number of rows of a name
CountName(rows, name) == Cardinality({p \in 1..Len(rows) : rows[p].rec.name = name})

\* a float division that raises when the divisor is 0
Divide_Raising(a, b) ==
    IF b = 0 THEN [kind |-> "ZeroDivisionError", num |-> 0, den |-> 0]
    ELSE [kind |-> "num", num |-> a, den |-> b]

\* line 57: the division of two pandas columns: 0 / 0 is NaN, x / 0 is inf,
\* otherwise the quotient num / den
Divide(a, b) ==
    IF b = 0 THEN (IF a = 0 THEN [kind |-> "nan", num |-> 0, den |-> 0]
                   ELSE [kind |-> "inf", num |-> a, den |-> 0])
    ELSE [kind |-> "num", num |-> a, den |-> b]

\* line 60
AllowList == {"restaurant", "meal_takeaway", "bakery", "cafe", "meal_delivery"}

\* line 65, in units
AirportLoc == [x |-> -1119768, y |-> 408016]

\* 0.02 degree, in units
AirportRadius == 2 * (DegUnits \div 100)

\* line 66: x.distance(airport_loc) <= 0.02
InAirport(geometry) ==
    (geometry.x - AirportLoc.x) * (geometry.x - AirportLoc.x)
        + (geometry.y - AirportLoc.y) * (geometry.y - AirportLoc.y)
    <= AirportRadius * AirportRadius

\* one row of the returned GeoDataFrame
OutputRow(row, rows) ==
    [name |-> row.rec.name,
     latitude |-> row.rec.latitude,
     longitude |-> row.rec.longitude,
     rated |-> row.rec.rated,
     rating |-> row.rec.rating,
     user_ratings_total |-> row.rec.user_ratings_total,
     types_str |-> row.rec.types_str,
     geometry |-> row.geometry,
     stars |-> Stars(row.rec),
     primary_type |-> Head(row.rec.types_str),
     n_locations |-> CountName(rows, row.rec.name),
     chain_stars |-> SumStars(rows, row.rec.name),
     chain_ratings_total |-> SumRatingsTotal(rows, row.rec.name),
     chain_wtd_avg_rating |-> Divide(SumStars(rows, row.rec.name),
                                     SumRatingsTotal(rows, row.rec.name)),
     in_airport |-> InAirport(row.geometry)]

\* the added columns keeping one row for every name only
AddColumns_Collapsed(rows) ==
    Unwrap(SelectSeq([p \in 1..Len(rows) |->
                         [x |-> OutputRow(rows[p], rows),
                          first |-> \A q \in 1..(p - 1) : rows[q].rec.name # rows[p].rec.name]],
                     LAMBDA e : e.first))

\* lines 48-57 and 66: groupby(...).transform gives every row the value of
\* its group
AddColumns(rows) == [p \in 1..Len(rows) |-> OutputRow(rows[p], rows)]

\* the whole function: pandas.concat raises ValueError without CSV file,
\* x.split raises AttributeError on a NaN types_str, and the rows whose
\* primary_type is not in the list of lines 58-62 are dropped at the end
clean_restaurant_data(recs) ==
    IF Len(recs) = 0 THEN [status |-> "ValueError", gdf |-> <<>>]
    ELSE LET rows == DropDuplicates(WithGeometry(recs))
         IN  IF \E p \in 1..Len(rows) : rows[p].rec.types_str = <<>>
             THEN [status |-> "AttributeError", gdf |-> <<>>]
             ELSE [status |-> "ok",
                   gdf |-> SelectSeq(AddColumns(rows),
                                     LAMBDA r : r.primary_type \in AllowList)]

\* the record that read_csv reads back from a row written by to_csv
AsRecord(r) ==
    Place(r.name, r.latitude, r.longitude, r.rated, r.rating,
          r.user_ratings_total, r.types_str)

AsRecords(rows) == [p \in 1..Len(rows) |-> AsRecord(rows[p])]

InitClean ==
    /\ DownloadIdle
    /\ FetchIdle
    /\ clean_pc = "start"
    /\ raw \in RawInputs
    /\ clean_gdf = <<>>
    /\ clean_again = <<>>
    /\ clean_err = "none"

\* clean_restaurant_data(input_dir, output_dir) on the CSV files of raw
CleanData ==
    /\ clean_pc = "start"
    /\ LET r == clean_restaurant_data(raw)
       IN  IF r.status # "ok"
           THEN /\ clean_pc' = "raised"
                /\ clean_err' = r.status
                /\ UNCHANGED clean_gdf
           ELSE /\ clean_pc' = "cleaned"
                /\ clean_gdf' = r.gdf
                /\ UNCHANGED clean_err
    /\ UNCHANGED <<raw, clean_again>>
    /\ UNCHANGED <<downloadVars, fetchVars>>

\* clean_restaurant_data on the CSV file that the first call wrote (with at
\* least one row)
CleanAgain ==
    /\ clean_pc = "cleaned"
    /\ Len(clean_gdf) > 0
    /\ LET r == clean_restaurant_data(AsRecords(clean_gdf))
       IN  IF r.status # "ok"
           THEN /\ clean_pc' = "raised_again"
                /\ clean_err' = r.status
                /\ UNCHANGED clean_again
           ELSE /\ clean_pc' = "cleaned_again"
                /\ clean_again' = r.gdf
                /\ UNCHANGED clean_err
    /\ UNCHANGED <<raw, clean_gdf>>
    /\ UNCHANGED <<downloadVars, fetchVars>>

NextClean ==
    \/ CleanData
    \/ CleanAgain

SpecClean == InitClean /\ [][NextClean]_vars

----------------------------------------------------------------------------
(* Claims on clean_restaurant_data                                         *)

\* the cell of the 0.001 degree grid an ordinate is nearest to
CellOf(v) == (2 * v + (DegUnits \div 1000)) \div (2 * (DegUnits \div 1000))

\* two records have the same deduplication key
SameDedupKey(a, b) ==
    /\ a.name = b.name
    /\ CellOf(a.latitude) = CellOf(b.latitude)
    /\ CellOf(a.longitude) = CellOf(b.longitude)

\* raw[p] is the first record of raw with its key
FirstOfKey(p) == \A q \in 1..(p - 1) : ~SameDedupKey(raw[q], raw[p])

\* the records of raw that survive deduplication and the category filter
Survivors == {p \in 1..Len(raw) : FirstOfKey(p) /\ Head(raw[p].types_str) \in AllowList}

RECURSIVE GroupStars(_, _)
\* sum of rating * rating count over the first-of-key records of a name
\* among raw[1..n]
GroupStars(n, name) ==
    IF n = 0 THEN 0
    ELSE GroupStars(n - 1, name)
         + (IF FirstOfKey(n) /\ raw[n].name = name /\ raw[n].rated
            THEN raw[n].rating * raw[n].user_ratings_total ELSE 0)

RECURSIVE GroupTotal(_, _)
\* sum of the rating counts over the first-of-key records of a name among
\* raw[1..n]
GroupTotal(n, name) ==
    IF n = 0 THEN 0
    ELSE GroupTotal(n - 1, name)
         + (IF FirstOfKey(n) /\ raw[n].name = name /\ raw[n].rated
            THEN raw[n].user_ratings_total ELSE 0)

Orderings(n) == {f \in [1..n -> 1..n] : \A i, j \in 1..n : i # j => f[i] # f[j]}

Permuted(recs, f) == [i \in 1..Len(recs) |-> recs[f[i]]]

\* what clean_restaurant_data gives for recs: the exception, or the set of
\* rows
Outcome(recs) ==
    [status |-> clean_restaurant_data(recs).status,
     rows |-> Elems(clean_restaurant_data(recs).gdf)]

C13_Idempotent ==
    clean_pc = "cleaned_again" => clean_again = clean_gdf

\* C14 as stated: every permutation of the raw records gives the same set
\* of output records with the same values.
C14_OrderIndependent ==
    clean_pc \in {"cleaned", "raised"} =>
        \A f \in Orderings(Len(raw)) : Outcome(Permuted(raw, f)) = Outcome(raw)

\* C14 amended: when the records that share a deduplication key are equal
\* in every column, every permutation of the raw records gives the same
\* set of output records with the same values.
C14_OrderIndependentOnEqualDuplicates ==
    (/\ clean_pc \in {"cleaned", "raised"}
     /\ \A p, q \in 1..Len(raw) : SameDedupKey(raw[p], raw[q]) => raw[p] = raw[q]) =>
        \A f \in Orderings(Len(raw)) : Outcome(Permuted(raw, f)) = Outcome(raw)

C14_Witness ==
    /\ clean_pc = "cleaned"
    /\ Len(raw) = 3
    /\ raw[1] = raw[3]
    /\ raw[1] # raw[2]
    /\ raw[1].name = raw[2].name
    /\ \A p, q \in 1..Len(raw) : SameDedupKey(raw[p], raw[q]) => raw[p] = raw[q]
    /\ Len(clean_gdf) = 2

\* C15: in every output row chain_stars is the sum of rating * rating count
\* over the records of the name, chain_ratings_total the sum of their
\* rating counts, and chain_wtd_avg_rating their quotient, NaN (not an
\* exception, not inf) when chain_ratings_total is 0.
C15_ChainStatistics ==
    clean_pc = "cleaned" =>
        \A r \in 1..Len(clean_gdf) :
            LET row == clean_gdf[r]
                stars == GroupStars(Len(raw), row.name)
                total == GroupTotal(Len(raw), row.name)
            IN  /\ row.chain_stars = stars
                /\ row.chain_ratings_total = total
                /\ total = 0 => row.chain_wtd_avg_rating.kind = "nan"
                /\ total # 0 => row.chain_wtd_avg_rating
                                    = [kind |-> "num", num |-> stars, den |-> total]

C15_Witness ==
    /\ clean_pc = "cleaned"
    /\ Len(raw) = 3
    /\ \A p \in 1..3 : raw[p].name = "ChainX"
    /\ <<raw[1].rating, raw[2].rating, raw[3].rating>> = <<40, 50, 30>>
    /\ <<raw[1].user_ratings_total, raw[2].user_ratings_total,
         raw[3].user_ratings_total>> = <<10, 20, 30>>
    /\ Len(clean_gdf) = 3
    /\ \A r \in 1..3 :
           /\ clean_gdf[r].chain_stars = 2300
           /\ clean_gdf[r].chain_ratings_total = 60
           /\ clean_gdf[r].chain_wtd_avg_rating = [kind |-> "num", num |-> 2300, den |-> 60]

\* C16: the output has one row for every record that survives (a group is
\* never collapsed into one row), and two rows of the same name carry the
\* same n_locations, chain_stars, chain_ratings_total and
\* chain_wtd_avg_rating.
C16_OneRowPerRecord ==
    clean_pc = "cleaned" =>
        /\ Len(clean_gdf) = Cardinality(Survivors)
        /\ \A r1, r2 \in 1..Len(clean_gdf) :
               clean_gdf[r1].name = clean_gdf[r2].name =>
                   /\ clean_gdf[r1].n_locations = clean_gdf[r2].n_locations
                   /\ clean_gdf[r1].chain_stars = clean_gdf[r2].chain_stars
                   /\ clean_gdf[r1].chain_ratings_total = clean_gdf[r2].chain_ratings_total
                   /\ clean_gdf[r1].chain_wtd_avg_rating = clean_gdf[r2].chain_wtd_avg_rating

C16_Witness ==
    /\ clean_pc = "cleaned"
    /\ Len(clean_gdf) = 3
    /\ clean_gdf[1].name = clean_gdf[2].name
    /\ clean_gdf[1].name # clean_gdf[3].name
    /\ clean_gdf[1].n_locations = 2

\* C17: primary_type is the first element of the category list, and
\* clean_restaurant_data raises for every record whose category list is
\* empty: such a record is never dropped silently.
C17_EmptyCategoriesRaise ==
    /\ (clean_pc \in {"cleaned", "raised"}
            /\ \E p \in 1..Len(raw) : raw[p].types_str = <<>>) =>
           (clean_pc = "raised" /\ clean_err = "AttributeError")
    /\ clean_pc = "cleaned" =>
           \A r \in 1..Len(clean_gdf) :
               clean_gdf[r].primary_type = Head(clean_gdf[r].types_str)

\* C18: with no record at all as input, clean_restaurant_data returns an
\* empty result and does not raise.
C18_EmptyInputEmptyResult ==
    (clean_pc # "start" /\ Len(raw) = 0) =>
        (clean_pc = "cleaned" /\ clean_gdf = <<>>)

RECURSIVE OutputStars(_, _)
\* sum of rating * rating count over the rows of a name among
\* clean_gdf[1..n]
OutputStars(n, name) ==
    IF n = 0 THEN 0
    ELSE OutputStars(n - 1, name)
         + (IF clean_gdf[n].name = name /\ clean_gdf[n].rated
            THEN clean_gdf[n].rating * clean_gdf[n].user_ratings_total ELSE 0)

RECURSIVE OutputTotal(_, _)
\* sum of the rating counts over the rows of a name among clean_gdf[1..n]
OutputTotal(n, name) ==
    IF n = 0 THEN 0
    ELSE OutputTotal(n - 1, name)
         + (IF clean_gdf[n].name = name /\ clean_gdf[n].rated
            THEN clean_gdf[n].user_ratings_total ELSE 0)

\* C21: in the output of clean_restaurant_data n_locations is the number of
\* output rows with the row's name, and chain_stars and chain_ratings_total
\* are sums over those output rows only: a record removed by the category
\* allow-list contributes nothing.
C21_StatisticsOverOutputRows ==
    clean_pc = "cleaned" =>
        \A r \in 1..Len(clean_gdf) :
            LET row == clean_gdf[r]
            IN  /\ row.n_locations
                       = Cardinality({q \in 1..Len(clean_gdf) : clean_gdf[q].name = row.name})
                /\ row.chain_stars = OutputStars(Len(clean_gdf), row.name)
                /\ row.chain_ratings_total = OutputTotal(Len(clean_gdf), row.name)

----------------------------------------------------------------------------
(* Claims on the validation of download_data                               *)

\* C19: with a bad selector or bad grid parameters download_data raises
\* before the county service or the places service is called.
C19_ValidationBeforeExternalCalls ==
    (city_county \notin {"city", "county"} \/ radius <= 0 \/ iterations < 0) =>
        (~FilterCalled /\ calls = <<>>)

\* C22: download_data accepts "city" as it accepts "county": only a
\* selector outside {"city", "county"} is rejected, and with "city" the
\* region filter step does not fail on the selector's own branch.
C22_BothSelectorsAccepted ==
    /\ err = "AttributeError" => city_county \notin {"city", "county"}
    /\ city_county = "city" => err # "UnboundLocalError"

====
